---- MODULE Spec2Model ----
(***************************************************************************)
(* Model of g-scrape (src/g-scrape/main_scraper.py): the fetch engine      *)
(* (ProxyManager, AdvancedScraper), the extraction jobs (the eleven        *)
(* WebsiteScraper subclasses, by what each appends for one raw entry of    *)
(* its site), the orchestrator (MainGameScraper.run_scrapers_parallel),    *)
(* the deduplicator (MainGameScraper.deduplicate_games) and the entry      *)
(* point (main, with its handlers, and the exit of the process).           *)
(*                                                                         *)
(* Text is modelled as a sequence of one-character strings, so that        *)
(* str.lower(), the f-string that builds the duplicate key, the substring  *)
(* tests of the block detector and the tests the scrapers make on names    *)
(* and links are computed, not assumed. A scraper's base URL is carried    *)
(* as one unit of such a sequence.                                         *)
(*                                                                         *)
(* Time is modelled by a clock that only the timed specification turns     *)
(* on; without it the wait of future.result may time out at any moment.    *)
(***************************************************************************)
EXTENDS Integers, Sequences, FiniteSets, TLC

VARIABLES
    pc,             \* position of the main thread (main / run_scrapers_parallel)
    submitted,      \* number of futures appended to `futures` (submit loop)
    idx,            \* number of futures the collector loop has processed
    jstate,         \* per job: state of its future / of its scrape() call
    listing,        \* per job: the raw entries of its site it has yet to process
    games,          \* per job: WebsiteScraper.games, the job's own accumulator
    collected,      \* per job: the branch the collector loop took for it
    out_of_order,   \* a job completed before an earlier-registered one did
    all_games,      \* MainGameScraper.all_games
    scraping_stats, \* MainGameScraper.scraping_stats (name -> count)
    raw_games,      \* all_games as it was when deduplicate_games was entered
    passes,         \* number of deduplicate_games calls made so far
    removed,        \* the count deduplicate_games logged ("Removed N duplicates")
    saved,          \* games written by save_results (<<"none">> before)
    proxies,        \* ProxyManager.proxies
    call,           \* record of the last Fetch Engine call and its outcome
    clock,          \* time: now, each job's start and end, start of the wait
    exit_status,    \* how main was left and the exit code of the process
    registry,       \* per job: its position in MainGameScraper.scrapers
    made            \* the Game objects constructed so far and the lists they refer to

vars == <<pc, submitted, idx, jstate, listing, games, collected, out_of_order,
          all_games, scraping_stats, raw_games, passes, removed, saved,
          proxies, call, clock, exit_status, registry, made>>

job_vars == <<jstate, games, out_of_order>>
fetch_vars == <<proxies, call>>
aux_vars == <<exit_status, registry, made>>

----------------------------------------------------------------------------
(* Bounds *)

NumJobs == 3        \* registered jobs (the registry holds 11)
PoolSize == 2       \* worker threads (ThreadPoolExecutor(max_workers=3)), scaled
MaxLen == 3         \* longest collection handed to deduplicate_games on its own
MaxPasses == 2      \* deduplicate_games calls in a row
MaxPool == 2        \* largest proxy pool
PerJobTimeout == 2  \* future.result(timeout=600), in clock ticks, scaled
MaxTime == 3        \* last clock tick of a timed run
MaxGames == 3       \* Game objects constructed, and lists made by a caller

Jobs == 1..NumJobs

----------------------------------------------------------------------------
(* Text *)

UpperCase == <<"A","B","C","D","E","F","G","H","I","J","K","L","M",
               "N","O","P","Q","R","S","T","U","V","W","X","Y","Z">>
LowerCase == <<"a","b","c","d","e","f","g","h","i","j","k","l","m",
               "n","o","p","q","r","s","t","u","v","w","x","y","z">>

\* str.lower() on one character
LowerChar(c) ==
    IF \E i \in 1..26 : UpperCase[i] = c
    THEN LowerCase[CHOOSE i \in 1..26 : UpperCase[i] = c]
    ELSE c

\* str.lower()
Lower(s) == [i \in 1..Len(s) |-> LowerChar(s[i])]

\* `pat in text`
Contains(text, pat) ==
    \E i \in 0..(Len(text) - Len(pat)) :
        \A k \in 1..Len(pat) : text[i + k] = pat[k]

\* str.upper() on one character
UpperChar(c) ==
    IF \E i \in 1..26 : LowerCase[i] = c
    THEN UpperCase[CHOOSE i \in 1..26 : LowerCase[i] = c]
    ELSE c

IsLetter(c) == \E i \in 1..26 : UpperCase[i] = c \/ LowerCase[i] = c

\* str.title(): a letter that follows a non-letter is upper-cased, every
\* other letter lower-cased
Title(s) ==
    [i \in 1..Len(s) |-> IF i = 1 \/ ~IsLetter(s[i - 1])
                         THEN UpperChar(s[i]) ELSE LowerChar(s[i])]

\* str.replace(old, new) for single characters
Replace(s, old, new) == [i \in 1..Len(s) |-> IF s[i] = old THEN new ELSE s[i]]

\* str.startswith(pat)
StartsWith(text, pat) ==
    /\ Len(pat) <= Len(text)
    /\ \A k \in 1..Len(pat) : text[k] = pat[k]

\* len(text.split()): the number of maximal runs of non-blank characters
Words(text) ==
    Cardinality({i \in 1..Len(text) :
                   text[i] # " " /\ (i = 1 \/ text[i - 1] = " ")})

\* text.split('/')[-1]
LastSegment(text) ==
    LET slashes == {i \in 1..Len(text) : text[i] = "/"}
        last == IF slashes = {} THEN 0
                ELSE CHOOSE i \in slashes : \A k \in slashes : k <= i
    IN SubSeq(text, last + 1, Len(text))

\* text[:n]
Take(text, n) == SubSeq(text, 1, IF Len(text) < n THEN Len(text) ELSE n)

----------------------------------------------------------------------------
(* Items *)

Foo == <<"F","o","o">>
foo == <<"f","o","o">>
Bar == <<"B","a","r">>
x1 == <<"h",":","/","/","x","/","1">>
x2 == <<"h",":","/","/","x","/","2">>
a_b == <<"a","_","b">>
a == <<"a">>
c == <<"c">>
b_c == <<"b","_","c">>

Game(name, url, source) == [name |-> name, url |-> url, source |-> source]

\* The dataclass fields with defaults that __post_init__ touches. A list is
\* an object with an identity: `lists` holds the list objects made so far
\* and a tags field is the position of its list there, or 0 for None.

Digits == <<"0","1","2","3","4","5","6","7","8","9">>

\* datetime.now().isoformat() at time t
isoformat(t) == <<"T", Digits[t + 1]>>

\* a date_scraped value a caller supplies
Stamp == <<"2","0","2","4">>

\* a __post_init__ whose default for tags is one list shared by all objects
post_init_shared_default(obj, lists, now) ==
    LET none == obj.tags = 0
        shared == IF lists = <<>> THEN Append(lists, <<>>) ELSE lists
        tags == IF none THEN 1 ELSE obj.tags
        date == IF obj.date_scraped = <<>> THEN isoformat(now)
                ELSE obj.date_scraped
    IN [obj |-> [tags |-> tags, date_scraped |-> date],
        lists |-> IF none THEN shared ELSE lists]

\* Game.__post_init__: `if self.tags is None: self.tags = []` (a new list
\* object), `if not self.date_scraped: self.date_scraped =
\* datetime.now().isoformat()`
post_init(obj, lists, now) ==
    LET none == obj.tags = 0
        tags == IF none THEN Len(lists) + 1 ELSE obj.tags
        date == IF obj.date_scraped = <<>> THEN isoformat(now)
                ELSE obj.date_scraped
    IN [obj |-> [tags |-> tags, date_scraped |-> date],
        lists |-> IF none THEN Append(lists, <<>>) ELSE lists]

\* nothing constructed yet
NoGames == [objects |-> <<>>, lists |-> <<>>, now |-> 0]

\* Game(name, url, source, tags=..., date_scraped=...): the generated
\* __init__ stores the arguments (defaults: None and ""), then
\* __post_init__ runs; the arguments are kept beside the object
NewGame ==
    /\ pc = "construct"
    /\ Len(made.objects) < MaxGames
    /\ \E tags \in 0..Len(made.lists), date_scraped \in {<<>>, Stamp} :
          LET r == post_init([tags |-> tags, date_scraped |-> date_scraped],
                             made.lists, made.now)
          IN made' = [made EXCEPT
                        !.objects = Append(@, [obj |-> r.obj,
                                               given_tags |-> tags,
                                               given_date |-> date_scraped,
                                               created |-> made.now]),
                        !.lists = r.lists]
    /\ UNCHANGED <<pc, submitted, idx, job_vars, listing, collected, all_games,
                   scraping_stats, saved, raw_games, passes, removed,
                   fetch_vars, clock, exit_status, registry>>

\* a caller makes a list of tags of its own, to pass it to Game(...)
NewList ==
    /\ pc = "construct"
    /\ Len(made.lists) < MaxGames
    /\ made' = [made EXCEPT !.lists = Append(@, <<"tag">>)]
    /\ UNCHANGED <<pc, submitted, idx, job_vars, listing, collected, all_games,
                   scraping_stats, saved, raw_games, passes, removed,
                   fetch_vars, clock, exit_status, registry>>

\* time passes between two constructions, or not
LaterNow ==
    /\ pc = "construct"
    /\ made.now < Len(made.objects)
    /\ made' = [made EXCEPT !.now = @ + 1]
    /\ UNCHANGED <<pc, submitted, idx, job_vars, listing, collected, all_games,
                   scraping_stats, saved, raw_games, passes, removed,
                   fetch_vars, clock, exit_status, registry>>

----------------------------------------------------------------------------
(* Deduplicator *)

\* game_id = f"{game.name.lower()}_{game.url}"
game_id(game) == Lower(game.name) \o <<"_">> \o game.url

\* the loop of deduplicate_games from position i on: <<seen, unique_games>>
RECURSIVE dedupe_loop(_, _, _, _)
dedupe_loop(gs, i, seen, unique_games) ==
    IF i > Len(gs) THEN unique_games
    ELSE IF game_id(gs[i]) \notin seen
         THEN dedupe_loop(gs, i + 1, seen \cup {game_id(gs[i])},
                          Append(unique_games, gs[i]))
         ELSE dedupe_loop(gs, i + 1, seen, unique_games)

\* a loop that forgets what it has seen whenever it drops a duplicate
RECURSIVE dedupe_loop_forgetful(_, _, _, _)
dedupe_loop_forgetful(gs, i, seen, unique_games) ==
    IF i > Len(gs) THEN unique_games
    ELSE IF game_id(gs[i]) \notin seen
         THEN dedupe_loop_forgetful(gs, i + 1, seen \cup {game_id(gs[i])},
                                    Append(unique_games, gs[i]))
         ELSE dedupe_loop_forgetful(gs, i + 1, {}, unique_games)

unique_of_forgetful(gs) == dedupe_loop_forgetful(gs, 1, {}, <<>>)

\* unique_games as deduplicate_games computes it from self.all_games
unique_of(gs) == dedupe_loop(gs, 1, {}, <<>>)

\* MainGameScraper.deduplicate_games: called by main after the run, or on
\* its own on a given collection
deduplicate_games ==
    /\ pc \in {"dedupe", "dedupe_only"}
    /\ passes < MaxPasses
    /\ raw_games' = IF passes = 0 THEN all_games ELSE raw_games
    /\ removed' = Len(all_games) - Len(unique_of(all_games))
    /\ all_games' = unique_of(all_games)
    /\ passes' = passes + 1
    /\ pc' = IF pc = "dedupe" THEN "save" ELSE pc
    /\ UNCHANGED <<submitted, idx, jstate, listing, games, collected,
                   out_of_order, scraping_stats, saved, fetch_vars, clock, aux_vars>>

----------------------------------------------------------------------------
(* Identity/Proxy Pool and Fetch Engine *)

\* ProxyManager._load_proxies: the list a new ProxyManager holds
load_proxies ==
    <<"http://45.77.56.114:3128", "http://138.197.157.44:8080",
      "http://165.227.103.244:8080", "http://159.65.69.186:9300",
      "socks5://127.0.0.1:9050", "socks5h://127.0.0.1:9050">>

\* pools a ProxyManager is tried with: the loaded one, and every list of up
\* to MaxPool of these endpoints, the empty one included
ProxyEndpoints == {"http://45.77.56.114:3128", "socks5://127.0.0.1:9050"}
Pools == {load_proxies} \cup
         UNION {[1..n -> ProxyEndpoints] : n \in 0..MaxPool}

\* the empty dict {}
NoProxy == <<>>

\* {'http': proxy, 'https': proxy} (both branches of startswith('socks'))
ProxyMapping(proxy) == [http |-> proxy, https |-> proxy]

\* random.choice on whatever the pool holds: IndexError on an empty pool
get_random_proxy_unguarded ==
    IF proxies = <<>>
    THEN {[raised |-> TRUE, value |-> NoProxy]}
    ELSE {[raised |-> FALSE, value |-> ProxyMapping(proxies[i])] :
              i \in 1..Len(proxies)}

\* ProxyManager.get_random_proxy: the outcomes random.choice allows
get_random_proxy ==
    IF proxies = <<>>
    THEN {[raised |-> FALSE, value |-> NoProxy]}
    ELSE {[raised |-> FALSE, value |-> ProxyMapping(proxies[i])] :
              i \in 1..Len(proxies)}

captcha == <<"c","a","p","t","c","h","a">>
cloudflare == <<"c","l","o","u","d","f","l","a","r","e">>
access_denied == <<"a","c","c","e","s","s"," ","d","e","n","i","e","d">>

\* ['captcha', 'cloudflare', 'access denied']
BlockIndicators == {captcha, cloudflare, access_denied}

\* any(indicator in response.text.lower() for indicator in [...])
is_blocked(text) == \E ind \in BlockIndicators : Contains(Lower(text), ind)

\* page contents a site may answer with
Pages ==
    { <<>>,
      <<"g","a","m","e">>,
      <<"c","a","p","t","c","h">>,
      <<"a"," ","C","a","p","t","c","h","a","!">>,
      <<"C","L","O","U","D","F","L","A","R","E">>,
      <<"A","c","c","e","s","s"," ","D","e","n","i","e","d">>,
      <<"a","c","c","e","s","s","d","e","n","i","e","d">> }

Answer(kind, status, text) == [kind |-> kind, status |-> status, text |-> text]

\* what the transport can do with one request: fail, time out, or answer
\* with a status and a body
Transport ==
    {Answer("error", 0, <<>>), Answer("timeout", 0, <<>>)} \cup
    {Answer("response", st, t) : st \in {200, 403}, t \in Pages}

\* what a browser session can do: not start, fail to navigate, never show a
\* body element, or render a page
Browser ==
    {Answer("no_browser", 0, <<>>), Answer("error", 0, <<>>),
     Answer("timeout", 0, <<>>)} \cup
    {Answer("response", 200, t) : t \in Pages}

\* the value None, apart from every text
None == <<"None">>

Outcome(op, env, proxy, delayed, sent, ret, raised) ==
    [op |-> op, env |-> env, proxy |-> proxy, delayed |-> delayed,
     sent |-> sent, ret |-> ret, raised |-> raised]

\* no call made yet
NoCall == Outcome("none", Answer("none", 0, <<>>), NoProxy, FALSE, 0, None,
                  FALSE)

\* ProxyManager.get_random_proxy called on its own
GetRandomProxy ==
    /\ pc = "fetch"
    /\ \E p \in get_random_proxy :
          call' = Outcome("get_random_proxy", Answer("none", 0, <<>>),
                          p.value, FALSE, 0,
                          IF p.raised THEN None ELSE p.value, p.raised)
    /\ UNCHANGED <<pc, submitted, idx, job_vars, listing, collected,
                   all_games, scraping_stats, saved, raw_games, passes,
                   removed, proxies, clock, aux_vars>>

\* AdvancedScraper.scrape_with_requests
scrape_with_requests(use_proxy) ==
    /\ pc = "fetch"
    /\ \E p \in (IF use_proxy THEN get_random_proxy
                 ELSE {[raised |-> FALSE, value |-> NoProxy]}),
          env \in Transport :
          call' =
            IF p.raised
            THEN Outcome("requests", Answer("none", 0, <<>>), NoProxy,
                         TRUE, 0, None, FALSE)
            ELSE Outcome("requests", env, p.value, TRUE, 1,
                         IF env.kind # "response" THEN None
                         ELSE IF env.status >= 400 THEN None
                         ELSE IF is_blocked(env.text) THEN None
                         ELSE env.text,
                         FALSE)
    /\ UNCHANGED <<pc, submitted, idx, job_vars, listing, collected,
                   all_games, scraping_stats, saved, raw_games, passes,
                   removed, proxies, clock, aux_vars>>

\* AdvancedScraper.scrape_with_selenium; quit_ok: driver.quit() in the
\* finally block does not raise
scrape_with_selenium ==
    /\ pc = "fetch"
    /\ \E p \in get_random_proxy, env \in Browser, quit_ok \in BOOLEAN :
          call' =
            IF p.raised
            THEN Outcome("selenium", Answer("none", 0, <<>>), NoProxy,
                         FALSE, 0, None, FALSE)
            ELSE LET proxy_arg == IF p.value # NoProxy
                                     /\ "http" \in DOMAIN p.value
                                  THEN p.value ELSE NoProxy
                 IN IF env.kind = "no_browser"
                    THEN Outcome("selenium", env, proxy_arg, FALSE, 0,
                                 None, FALSE)
                    ELSE IF ~quit_ok
                    THEN Outcome("selenium", env, proxy_arg, FALSE, 1,
                                 None, TRUE)
                    ELSE Outcome("selenium", env, proxy_arg, FALSE, 1,
                                 IF env.kind = "response" THEN env.text
                                 ELSE None,
                                 FALSE)
    /\ UNCHANGED <<pc, submitted, idx, job_vars, listing, collected,
                   all_games, scraping_stats, saved, raw_games, passes,
                   removed, proxies, clock, aux_vars>>

\* CONFIG["scraping"]["retry_attempts"] (config.py; main_scraper.py never
\* imports it)
retry_attempts == 3

\* a scrape_with_cloudscraper that tries again, retry_attempts times in all,
\* when no response arrives
scrape_with_cloudscraper_retrying ==
    /\ pc = "fetch"
    /\ \E env \in Transport :
          call' = Outcome("cloudscraper", env, NoProxy, TRUE,
                          IF env.kind = "response" THEN 1 ELSE retry_attempts,
                          IF env.kind = "response" THEN env.text ELSE None,
                          FALSE)
    /\ UNCHANGED <<pc, submitted, idx, job_vars, listing, collected,
                   all_games, scraping_stats, saved, raw_games, passes,
                   removed, proxies, clock, aux_vars>>

\* AdvancedScraper.scrape_with_cloudscraper
scrape_with_cloudscraper ==
    /\ pc = "fetch"
    /\ \E env \in Transport :
          call' = Outcome("cloudscraper", env, NoProxy, TRUE, 1,
                          IF env.kind = "response" THEN env.text ELSE None,
                          FALSE)
    /\ UNCHANGED <<pc, submitted, idx, job_vars, listing, collected,
                   all_games, scraping_stats, saved, raw_games, passes,
                   removed, proxies, clock, aux_vars>>

\* AdvancedScraper.scrape_with_aiohttp
scrape_with_aiohttp ==
    /\ pc = "fetch"
    /\ \E env \in Transport :
          call' = Outcome("aiohttp", env, NoProxy, FALSE, 1,
                          IF env.kind = "response" /\ env.status = 200
                          THEN env.text ELSE None,
                          FALSE)
    /\ UNCHANGED <<pc, submitted, idx, job_vars, listing, collected,
                   all_games, scraping_stats, saved, raw_games, passes,
                   removed, proxies, clock, aux_vars>>

----------------------------------------------------------------------------
(* Orchestrator *)

\* MainGameScraper.scrapers: the registry, by the names the jobs are built with
ScraperNames == <<"Poki", "Coolmath Games", "Kongregate", "GamePix",
                  "CrazyGames", "Y8 Games", "Armor Games", "Nitrome",
                  "Unblocked Games", "GitHub Games", "HTML5 Games">>

\* the base_url each scraper of the registry is built with; a base URL is
\* carried as one unit of text
BaseUrls == <<"https://poki.com", "https://www.coolmathgames.com",
              "https://www.kongregate.com", "https://www.gamepix.com",
              "https://www.crazygames.com", "https://www.y8.com",
              "https://armorgames.com", "https://www.nitrome.com",
              "https://sites.google.com", "https://github.com",
              "https://html5gamedevs.com">>

base_url(s) == <<BaseUrls[s]>>

\* the first of the sites UnblockedGamesScraper and HTML5GamesScraper visit
UnblockedSite == "https://sites.google.com/view/tyronesgameshack"
HTML5Site == "https://html5games.com"

\* urllib.parse.urljoin(base, href) for a base without a path: an empty
\* reference gives the base, an absolute reference itself, a relative one
\* is put under the base
urljoin(base, href) ==
    IF href = <<>> THEN base
    ELSE IF Contains(href, <<":","/","/">>) THEN href
    ELSE IF href[1] = "/" THEN base \o href
    ELSE base \o <<"/">> \o href

\* one raw entry of a site's listing or API answer: the text of its
\* title/name element and its link (None: the element, attribute or key is
\* missing), and whether the follow-up request for it succeeds
Entry(title, href, live) == [title |-> title, href |-> href, live |-> live]

\* dict.get(key, '') and `elem.get_text(strip=True) if elem else ''`
OrEmpty(v) == IF v = None THEN <<>> ELSE v

\* PokiScraper.scrape, one element: the item starts with name="" and
\* url="" and is appended only `if game.name and game.url`
PokiScraper(e) ==
    LET name == OrEmpty(e.title)
        url == IF e.href # None THEN urljoin(base_url(1), e.href) ELSE <<>>
    IN IF name # <<>> /\ url # <<>>
       THEN <<Game(name, url, ScraperNames[1])>> ELSE <<>>

\* CoolmathScraper.scrape, one link
CoolmathScraper(e) ==
    LET name == OrEmpty(e.title) IN
    IF e.href = None \/ name = <<>> \/ Len(name) < 2 THEN <<>>
    ELSE <<Game(Take(name, 200), urljoin(base_url(2), e.href), ScraperNames[2])>>

\* KongregateScraper.scrape, one entry of the API answer
KongregateScraper(e) ==
    <<Game(OrEmpty(e.title), urljoin(base_url(3), OrEmpty(e.href)),
           ScraperNames[3])>>

\* GamePixScraper.scrape, one entry of the API answer
GamePixScraper(e) ==
    <<Game(OrEmpty(e.title), OrEmpty(e.href), ScraperNames[4])>>

\* CrazyGamesScraper.scrape, one <url> of the sitemap: kept if its <loc>
\* holds '/game/'; the game page must be fetched and have an <h1> text
CrazyGamesScraper(e) ==
    IF e.href = None \/ ~Contains(e.href, <<"/","g","a","m","e","/">>)
       \/ ~e.live \/ OrEmpty(e.title) = <<>>
    THEN <<>>
    ELSE <<Game(e.title, e.href, ScraperNames[5])>>

\* Y8Scraper.scrape, one <item> of the feed: skipped only if the <title> or
\* the <link> element is missing (an element is true even when empty)
Y8Scraper(e) ==
    IF e.title = None \/ e.href = None THEN <<>>
    ELSE <<Game(e.title, e.href, ScraperNames[6])>>

\* ArmorGamesScraper.scrape, one item
ArmorGamesScraper(e) ==
    IF e.href = None \/ OrEmpty(e.title) = <<>> THEN <<>>
    ELSE <<Game(e.title, urljoin(base_url(7), e.href), ScraperNames[7])>>

\* NitromeScraper.scrape, one link whose href holds '/games/'; a name
\* shorter than 2 is replaced by one made from the URL
NitromeScraper(e) ==
    IF e.href = None \/ ~Contains(e.href, <<"/","g","a","m","e","s","/">>)
    THEN <<>>
    ELSE LET game_url == urljoin(base_url(8), e.href)
             text == OrEmpty(e.title)
             name == IF text = <<>> \/ Len(text) < 2
                     THEN Title(Replace(LastSegment(game_url), "-", " "))
                     ELSE text
         IN <<Game(name, game_url, ScraperNames[8])>>

\* UnblockedGamesScraper.scrape, one link of a site
UnblockedGamesScraper(e) ==
    LET text == OrEmpty(e.title)
        game_like ==
          /\ Len(text) > 2
          /\ \/ Contains(Lower(text), <<"g","a","m","e">>)
             \/ Contains(Lower(text), <<"p","l","a","y">>)
             \/ Words(text) < 4
        href == IF StartsWith(e.href, <<"h","t","t","p">>)
                   \/ StartsWith(e.href, <<"/","/">>)
                THEN e.href ELSE urljoin(<<UnblockedSite>>, e.href)
        skipped == \/ Contains(Lower(href), <<"m","a","i","l","t","o",":">>)
                   \/ Contains(Lower(href), <<"j","a","v","a","s","c","r",
                                               "i","p","t",":">>)
                   \/ Contains(Lower(href), <<"#">>)
                   \/ Contains(Lower(href), <<"?">>)
    IN IF e.href = None \/ ~game_like \/ skipped THEN <<>>
       ELSE <<Game(Take(text, 100), href,
                   "Unblocked (https://sites.google.com/view/tyronesgameshack)")>>

\* GitHubGamesScraper.scrape, one repository link of a topic page: kept if
\* its text is owner/repo and the demo page answers 200
GitHubGamesScraper(e) ==
    LET repo_name == OrEmpty(e.title) IN
    IF e.href = None \/ ~Contains(repo_name, <<"/">>) \/ Len(repo_name) < 3
       \/ ~e.live
    THEN <<>>
    ELSE <<Game(repo_name, urljoin(base_url(10), e.href), "GitHub")>>

\* HTML5GamesScraper.scrape, one element of a site
HTML5GamesScraper(e) ==
    LET name == OrEmpty(e.title) IN
    IF e.href = None \/ name = <<>> \/ Len(name) < 2 THEN <<>>
    ELSE <<Game(Take(name, 150), urljoin(<<HTML5Site>>, e.href),
                "HTML5 (https://html5games.com)")>>

\* what the scraper at position s of the registry appends for one raw
\* entry: nothing, or one item
build_item(s, e) ==
    CASE s = 1 -> PokiScraper(e)
      [] s = 2 -> CoolmathScraper(e)
      [] s = 3 -> KongregateScraper(e)
      [] s = 4 -> GamePixScraper(e)
      [] s = 5 -> CrazyGamesScraper(e)
      [] s = 6 -> Y8Scraper(e)
      [] s = 7 -> ArmorGamesScraper(e)
      [] s = 8 -> NitromeScraper(e)
      [] s = 9 -> UnblockedGamesScraper(e)
      [] s = 10 -> GitHubGamesScraper(e)
      [] s = 11 -> HTML5GamesScraper(e)

\* what a job's site may hold: one entry, or two of which the first differs
\* from the one-entry listing's entry only in the case of its name
ListingA(j) == <<Entry(Foo, x1, TRUE)>>
ListingB(j) == <<Entry(foo, x1, TRUE), Entry(Bar, x2, TRUE)>>

\* the sites' contents at the time of a run: the two listings alternate over
\* the registry, starting with either
SiteContents ==
    { [j \in Jobs |-> IF j % 2 = 1 THEN ListingA(j) ELSE ListingB(j)],
      [j \in Jobs |-> IF j % 2 = 1 THEN ListingB(j) ELSE ListingA(j)] }

Done == {"returned", "raised", "raised_base"}
Running == {j \in Jobs : jstate[j] = "running"}

\* `futures` in the reverse of the submission order
FutureOrderReversed == [i \in Jobs |-> NumJobs + 1 - i]

\* `futures`: the i-th pair the collector loop visits is the i-th job submitted
FutureOrder == [i \in Jobs |-> i]

\* the clock of an untimed run: it never advances and nothing is stamped
NoClock ==
    [on |-> FALSE, now |-> 0, start |-> [j \in Jobs |-> -1],
     end |-> [j \in Jobs |-> -1], wait_since |-> 0]

\* the worker enters scrape() for job j now
StartedNow(j) == IF clock.on THEN [clock EXCEPT !.start[j] = clock.now] ELSE clock

\* scrape() of job j ends now
EndedNow(j) == IF clock.on THEN [clock EXCEPT !.end[j] = clock.now] ELSE clock

\* the collector calls future.result(timeout=600) now: the 600 s of
\* Future.result run from this call
WaitFromNow == IF clock.on THEN [clock EXCEPT !.wait_since = clock.now] ELSE clock

\* executor.submit(self.run_single_scraper, scraper) for the next scraper of
\* the registry; after the last one the collector loop is entered
Submit ==
    /\ pc = "submit"
    /\ submitted < NumJobs
    /\ jstate' = [jstate EXCEPT ![submitted + 1] = "queued"]
    /\ submitted' = submitted + 1
    /\ pc' = IF submitted + 1 = NumJobs THEN "collect" ELSE "submit"
    /\ clock' = IF submitted + 1 = NumJobs THEN WaitFromNow ELSE clock
    /\ UNCHANGED <<idx, listing, games, collected, out_of_order, all_games,
                   scraping_stats, saved, raw_games, passes, removed,
                   fetch_vars, aux_vars>>

\* a pool that starts a thread for every queued work item
StartUnbounded(j) ==
    /\ jstate[j] = "queued"
    /\ \A i \in 1..(j - 1) : jstate[i] # "queued"
    /\ jstate' = [jstate EXCEPT ![j] = "running"]
    /\ clock' = StartedNow(j)
    /\ UNCHANGED <<pc, submitted, idx, listing, games, collected,
                   out_of_order, all_games, scraping_stats, saved,
                   raw_games, passes, removed, fetch_vars, aux_vars>>

\* a pool whose threads end after their first work item
StartOnce(j) ==
    /\ jstate[j] = "queued"
    /\ \A i \in 1..(j - 1) : jstate[i] # "queued"
    /\ Cardinality({i \in Jobs : jstate[i] \notin {"new", "queued"}}) < PoolSize
    /\ jstate' = [jstate EXCEPT ![j] = "running"]
    /\ clock' = StartedNow(j)
    /\ UNCHANGED <<pc, submitted, idx, listing, games, collected,
                   out_of_order, all_games, scraping_stats, saved,
                   raw_games, passes, removed, fetch_vars, aux_vars>>

\* a worker thread of the pool takes the oldest queued work item and calls
\* run_single_scraper -> scraper.scrape()
Start(j) ==
    /\ jstate[j] = "queued"
    /\ \A i \in 1..(j - 1) : jstate[i] # "queued"
    /\ Cardinality(Running) < PoolSize
    /\ jstate' = [jstate EXCEPT ![j] = "running"]
    /\ clock' = StartedNow(j)
    /\ UNCHANGED <<pc, submitted, idx, listing, games, collected,
                   out_of_order, all_games, scraping_stats, saved,
                   raw_games, passes, removed, fetch_vars, aux_vars>>

\* jobs that append what they find to the orchestrator's collection as well
EmitShared(j) ==
    /\ jstate[j] = "running"
    /\ listing[j] # <<>>
    /\ games' = [games EXCEPT ![j] = @ \o build_item(registry[j], Head(listing[j]))]
    /\ all_games' = all_games \o build_item(registry[j], Head(listing[j]))
    /\ listing' = [listing EXCEPT ![j] = Tail(@)]
    /\ UNCHANGED <<pc, submitted, idx, jstate, collected,
                   out_of_order, scraping_stats, saved,
                   raw_games, passes, removed, fetch_vars, clock, aux_vars>>

\* inside scrape(): the next raw entry of the site is processed and
\* self.games.append(game) is reached, or the entry is skipped
Emit(j) ==
    /\ jstate[j] = "running"
    /\ listing[j] # <<>>
    /\ games' = [games EXCEPT ![j] = @ \o build_item(registry[j], Head(listing[j]))]
    /\ listing' = [listing EXCEPT ![j] = Tail(@)]
    /\ UNCHANGED <<pc, submitted, idx, jstate, collected,
                   out_of_order, all_games, scraping_stats, saved,
                   raw_games, passes, removed, fetch_vars, clock, aux_vars>>

\* scrape() ends: `return self.games` (or `return []` before the first
\* item), or an exception leaves it; the worker stores it in the future
Finish(j, how) ==
    /\ jstate[j] = "running"
    /\ jstate' = [jstate EXCEPT ![j] = how]
    /\ out_of_order' =
          (out_of_order \/ \E i \in 1..(j - 1) : jstate[i] \notin Done)
    /\ clock' = EndedNow(j)
    /\ UNCHANGED <<pc, submitted, idx, listing, games, collected, all_games,
                   scraping_stats, saved, raw_games, passes, removed,
                   fetch_vars, aux_vars>>

Return(j) == Finish(j, "returned")

\* an exception derived from Exception leaves scrape()
Raise(j) == Finish(j, "raised")

\* a BaseException that is not an Exception (SystemExit) leaves scrape()
RaiseBase(j) == Finish(j, "raised_base")

\* the loop variable advances and the wait for the next future begins;
\* after the last future the with-block is left
AfterFuture ==
    /\ idx' = idx + 1
    /\ pc' = IF idx + 1 = NumJobs THEN "exit" ELSE "collect"
    /\ clock' = WaitFromNow

\* future.result(timeout=600) returns the job's list
CollectResult ==
    /\ pc = "collect"
    /\ LET j == FutureOrder[idx + 1] IN
         /\ jstate[j] = "returned"
         /\ all_games' = all_games \o games[j]
         /\ scraping_stats' = (ScraperNames[registry[j]] :> Len(games[j])) @@ scraping_stats
         /\ collected' = [collected EXCEPT ![j] = "result"]
    /\ AfterFuture
    /\ UNCHANGED <<submitted, job_vars, listing, saved, raw_games, passes,
                   removed, fetch_vars, aux_vars>>

\* an except clause too narrow for the job's exception: it leaves the loop
CollectExceptionUncaught ==
    /\ pc = "collect"
    /\ LET j == FutureOrder[idx + 1] IN
         /\ jstate[j] = "raised"
         /\ collected' = [collected EXCEPT ![j] = "propagated"]
    /\ pc' = "exit_raising"
    /\ UNCHANGED <<submitted, idx, job_vars, listing, all_games,
                   scraping_stats, saved, raw_games, passes, removed,
                   fetch_vars, clock, aux_vars>>

\* future.result re-raises the job's Exception: except Exception
CollectException ==
    /\ pc = "collect"
    /\ LET j == FutureOrder[idx + 1] IN
         /\ jstate[j] = "raised"
         /\ scraping_stats' = (ScraperNames[registry[j]] :> 0) @@ scraping_stats
         /\ collected' = [collected EXCEPT ![j] = "exception"]
    /\ AfterFuture
    /\ UNCHANGED <<submitted, job_vars, listing, all_games, saved, raw_games,
                   passes, removed, fetch_vars, aux_vars>>

\* a timeout handler that records what the job's own list holds at that moment
CollectTimeoutCountingPartial ==
    /\ pc = "collect"
    /\ clock.on => clock.now - clock.wait_since >= PerJobTimeout
    /\ LET j == FutureOrder[idx + 1] IN
         /\ jstate[j] \in {"queued", "running"}
         /\ scraping_stats' = (ScraperNames[registry[j]] :> Len(games[j])) @@ scraping_stats
         /\ collected' = [collected EXCEPT ![j] = "timeout"]
    /\ AfterFuture
    /\ UNCHANGED <<submitted, job_vars, listing, all_games, saved, raw_games,
                   passes, removed, fetch_vars, aux_vars>>

\* a timeout handler that only logs
CollectTimeoutUnrecorded ==
    /\ pc = "collect"
    /\ clock.on => clock.now - clock.wait_since >= PerJobTimeout
    /\ LET j == FutureOrder[idx + 1] IN
         /\ jstate[j] \in {"queued", "running"}
         /\ collected' = [collected EXCEPT ![j] = "timeout"]
    /\ AfterFuture
    /\ UNCHANGED <<submitted, job_vars, listing, all_games, scraping_stats,
                   saved, raw_games, passes, removed, fetch_vars, aux_vars>>

\* future.result raises TimeoutError: the job is still queued or running
\* when the 600 s of this wait are over (in an untimed run: at any moment);
\* except Exception
CollectTimeout ==
    /\ pc = "collect"
    /\ clock.on => clock.now - clock.wait_since >= PerJobTimeout
    /\ LET j == FutureOrder[idx + 1] IN
         /\ jstate[j] \in {"queued", "running"}
         /\ scraping_stats' = (ScraperNames[registry[j]] :> 0) @@ scraping_stats
         /\ collected' = [collected EXCEPT ![j] = "timeout"]
    /\ AfterFuture
    /\ UNCHANGED <<submitted, job_vars, listing, all_games, saved, raw_games,
                   passes, removed, fetch_vars, aux_vars>>

\* future.result re-raises a BaseException that except Exception does not
\* catch: it leaves the loop and the with-block
CollectBaseException ==
    /\ pc = "collect"
    /\ LET j == FutureOrder[idx + 1] IN
         /\ jstate[j] = "raised_base"
         /\ collected' = [collected EXCEPT ![j] = "propagated"]
    /\ pc' = "exit_raising"
    /\ UNCHANGED <<submitted, idx, job_vars, listing, all_games,
                   scraping_stats, saved, raw_games, passes, removed,
                   fetch_vars, clock, aux_vars>>

\* ThreadPoolExecutor.__exit__: shutdown(wait=True) returns when every
\* submitted job has ended; run_scrapers_parallel then returns to main, or
\* the pending exception leaves it
ExecutorExit ==
    /\ pc \in {"exit", "exit_raising", "exit_interrupted"}
    /\ \A j \in Jobs : jstate[j] \in Done \cup {"new"}
    /\ pc' = CASE pc = "exit" -> "dedupe"
              [] pc = "exit_raising" -> "aborted"
              [] pc = "exit_interrupted" -> "interrupted"
    /\ UNCHANGED <<submitted, idx, job_vars, listing, collected, all_games,
                   scraping_stats, saved, raw_games, passes, removed,
                   fetch_vars, clock, aux_vars>>

\* MainGameScraper.save_results
save_results ==
    /\ pc = "save"
    /\ saved' = all_games
    /\ pc' = "stats"
    /\ UNCHANGED <<submitted, idx, job_vars, listing, collected, all_games,
                   scraping_stats, raw_games, passes, removed, fetch_vars, clock, aux_vars>>

\* a summary that takes its sample out of the collection instead of slicing it
print_stats_consuming ==
    /\ pc = "stats"
    /\ pc' = IF Len(all_games) = 0 THEN "fatal" ELSE "done"
    /\ all_games' = <<>>
    /\ UNCHANGED <<submitted, idx, job_vars, listing, collected,
                   scraping_stats, saved, raw_games, passes, removed,
                   fetch_vars, clock, aux_vars>>

\* MainGameScraper.print_stats: games_with_embed/total_games*100 divides by
\* zero on an empty collection; main logs the exception as fatal
print_stats ==
    /\ pc = "stats"
    /\ pc' = IF Len(all_games) = 0 THEN "fatal" ELSE "done"
    /\ UNCHANGED <<submitted, idx, job_vars, listing, collected, all_games,
                   scraping_stats, saved, raw_games, passes, removed,
                   fetch_vars, clock, aux_vars>>

\* main has not been left
NotExited ==
    [code |-> -1, left_by |-> "none", interrupted |-> FALSE,
     produced |-> [j \in Jobs |-> <<>>]]

\* the exit codes the interpreter can end with: main() returned (after the
\* try, after `except Exception` or after `except KeyboardInterrupt`) and
\* the module ends: 0; a BaseException left main: SystemExit carries any
\* code
ExitCodes(left_by) == IF left_by = "aborted" THEN {0, 1} ELSE {0}

\* `if __name__ == "__main__": main()` is over and the process exits
ProcessExit ==
    /\ pc \in {"done", "fatal", "handled_interrupt", "aborted"}
    /\ \E code \in ExitCodes(pc) :
          exit_status' = [exit_status EXCEPT !.code = code, !.left_by = pc]
    /\ pc' = "exited"
    /\ UNCHANGED <<submitted, idx, job_vars, listing, collected, all_games,
                   scraping_stats, saved, raw_games, passes, removed,
                   fetch_vars, clock, registry, made>>

\* the user interrupts the run (Ctrl-C): KeyboardInterrupt is raised in the
\* main thread. Inside the with-block it first passes
\* ThreadPoolExecutor.__exit__, which waits for the submitted jobs; an
\* interrupt of that wait, or of the steps after the with-block, reaches
\* main's handler at once
KeyboardInterrupt ==
    /\ pc \in {"submit", "collect", "exit", "dedupe", "save", "stats"}
    /\ pc' = IF pc \in {"submit", "collect"} THEN "exit_interrupted"
                                              ELSE "interrupted"
    /\ exit_status' = [exit_status EXCEPT !.interrupted = TRUE,
                                          !.produced = games]
    /\ UNCHANGED <<submitted, idx, job_vars, listing, collected, all_games,
                   scraping_stats, saved, raw_games, passes, removed,
                   fetch_vars, clock, registry, made>>

\* main: except KeyboardInterrupt: `if scraper.all_games:
\* scraper.save_results()`
InterruptHandler ==
    /\ pc = "interrupted"
    /\ saved' = IF all_games # <<>> THEN all_games ELSE saved
    /\ pc' = "handled_interrupt"
    /\ UNCHANGED <<submitted, idx, job_vars, listing, collected, all_games,
                   scraping_stats, raw_games, passes, removed, fetch_vars,
                   clock, aux_vars>>

Init ==
    /\ pc = "submit"
    /\ submitted = 0
    /\ idx = 0
    /\ jstate = [j \in Jobs |-> "new"]
    /\ listing \in SiteContents
    /\ games = [j \in Jobs |-> <<>>]
    /\ collected = [j \in Jobs |-> "none"]
    /\ out_of_order = FALSE
    /\ all_games = <<>>
    /\ scraping_stats = <<>>
    /\ raw_games = <<>>
    /\ passes = 0
    /\ removed = 0
    /\ saved = <<"none">>
    /\ proxies = load_proxies
    /\ call = NoCall
    /\ clock = NoClock
    /\ exit_status = NotExited
    /\ registry = [j \in Jobs |-> j]
    /\ made = NoGames

Next ==
    \/ Submit
    \/ \E j \in Jobs : Start(j)
    \/ \E j \in Jobs : Emit(j)
    \/ \E j \in Jobs : Return(j)
    \/ \E j \in Jobs : Raise(j)
    \/ \E j \in Jobs : RaiseBase(j)
    \/ CollectResult
    \/ CollectException
    \/ CollectTimeout
    \/ CollectBaseException
    \/ ExecutorExit
    \/ deduplicate_games
    \/ save_results
    \/ print_stats
    \/ ProcessExit

Spec == Init /\ [][Next]_vars

----------------------------------------------------------------------------
(* The orchestrator before a run *)

\* MainGameScraper.__init__ and WebsiteScraper.__init__: nothing submitted,
\* empty accumulators, empty statistics
IdleOrchestrator ==
    /\ submitted = 0
    /\ idx = 0
    /\ jstate = [j \in Jobs |-> "new"]
    /\ listing = [j \in Jobs |-> <<>>]
    /\ games = [j \in Jobs |-> <<>>]
    /\ collected = [j \in Jobs |-> "none"]
    /\ out_of_order = FALSE
    /\ scraping_stats = <<>>
    /\ saved = <<"none">>
    /\ clock = NoClock
    /\ exit_status = NotExited
    /\ registry = [j \in Jobs |-> j]
    /\ made = NoGames

----------------------------------------------------------------------------
(* Specification of the deduplicator alone: any merged collection of up to *)
(* MaxLen items, then deduplicate_games run MaxPasses times.               *)

DedupeNames == {Foo, foo, a_b, a}
DedupeUrls == {c, b_c}
DedupeSources == {"Poki", "Kongregate"}
DedupeItems == {Game(n, u, s) : n \in DedupeNames, u \in DedupeUrls,
                                s \in DedupeSources}
DedupeInputs == UNION {[1..n -> DedupeItems] : n \in 0..MaxLen}

DedupeInit ==
    /\ pc = "dedupe_only"
    /\ all_games \in DedupeInputs
    /\ raw_games = <<>>
    /\ passes = 0
    /\ removed = 0
    /\ IdleOrchestrator
    /\ proxies = load_proxies
    /\ call = NoCall

DedupeNext == deduplicate_games

DedupeSpec == DedupeInit /\ [][DedupeNext]_vars

----------------------------------------------------------------------------
(* Specification of the fetch engine alone *)

\* Specification of one fetch engine: a pool of up to MaxPool proxies, then
\* any sequence of calls
FetchInit ==
    /\ pc = "fetch"
    /\ proxies \in Pools
    /\ call = NoCall
    /\ all_games = <<>>
    /\ raw_games = <<>>
    /\ passes = 0
    /\ removed = 0
    /\ IdleOrchestrator

FetchNext ==
    \/ GetRandomProxy
    \/ \E use_proxy \in BOOLEAN : scrape_with_requests(use_proxy)
    \/ scrape_with_selenium
    \/ scrape_with_cloudscraper
    \/ scrape_with_aiohttp

FetchSpec == FetchInit /\ [][FetchNext]_vars

----------------------------------------------------------------------------
(* Specification of the Game dataclass alone: any sequence of up to        *)
(* MaxGames constructions                                                  *)

GameInit ==
    /\ pc = "construct"
    /\ all_games = <<>>
    /\ raw_games = <<>>
    /\ passes = 0
    /\ removed = 0
    /\ proxies = load_proxies
    /\ call = NoCall
    /\ IdleOrchestrator

GameNext ==
    \/ NewGame
    \/ NewList
    \/ LaterNow

GameSpec == GameInit /\ [][GameNext]_vars

----------------------------------------------------------------------------
(* Specification of run_scrapers_parallel under fair scheduling: the main  *)
(* thread goes on whenever it can (the submit loop, a future.result whose  *)
(* future is done, the exit of the with-block), a free worker thread takes *)
(* the oldest queued work item, and every scrape() that was entered ends.  *)
(* A wait of future.result may time out, but need not.                     *)

\* a run over sites that list one entry each
LiveInit ==
    /\ pc = "submit"
    /\ submitted = 0
    /\ idx = 0
    /\ jstate = [j \in Jobs |-> "new"]
    /\ listing = [j \in Jobs |-> ListingA(j)]
    /\ games = [j \in Jobs |-> <<>>]
    /\ collected = [j \in Jobs |-> "none"]
    /\ out_of_order = FALSE
    /\ all_games = <<>>
    /\ scraping_stats = <<>>
    /\ raw_games = <<>>
    /\ passes = 0
    /\ removed = 0
    /\ saved = <<"none">>
    /\ proxies = load_proxies
    /\ call = NoCall
    /\ clock = NoClock
    /\ exit_status = NotExited
    /\ registry = [j \in Jobs |-> j]
    /\ made = NoGames

LiveNext ==
    \/ Submit
    \/ \E j \in Jobs : Start(j)
    \/ \E j \in Jobs : Emit(j)
    \/ \E j \in Jobs : Return(j)
    \/ \E j \in Jobs : Raise(j)
    \/ \E j \in Jobs : RaiseBase(j)
    \/ CollectResult
    \/ CollectException
    \/ CollectTimeout
    \/ CollectBaseException
    \/ ExecutorExit

Fairness ==
    /\ WF_vars(Submit)
    /\ \A j \in Jobs : WF_vars(Start(j))
    /\ \A j \in Jobs : WF_vars(Return(j) \/ Raise(j) \/ RaiseBase(j))
    /\ WF_vars(CollectResult \/ CollectException \/ CollectBaseException)
    /\ WF_vars(ExecutorExit)

LiveSpec == LiveInit /\ [][LiveNext]_vars /\ Fairness

----------------------------------------------------------------------------
(* Specification of a run the user may interrupt; every job returns *)

InterruptNext ==
    \/ Submit
    \/ \E j \in Jobs : Start(j)
    \/ \E j \in Jobs : Emit(j)
    \/ \E j \in Jobs : Return(j)
    \/ CollectResult
    \/ ExecutorExit
    \/ deduplicate_games
    \/ save_results
    \/ print_stats
    \/ KeyboardInterrupt
    \/ InterruptHandler
    \/ ProcessExit

InterruptSpec == Init /\ [][InterruptNext]_vars

----------------------------------------------------------------------------
(* Specification of run_scrapers_parallel with a clock; every job returns, *)
(* after any time                                                          *)

\* time passes while the collector loop or the exit of the with-block runs
\* (the submit loop takes no time on the scale of the timeout); the
\* collector does not let time pass when its future is done or its wait has
\* lasted the timeout
Tick ==
    /\ clock.on
    /\ clock.now < MaxTime
    /\ pc \in {"collect", "exit"}
    /\ pc = "collect" =>
          /\ jstate[FutureOrder[idx + 1]] \notin Done
          /\ clock.now - clock.wait_since < PerJobTimeout
    /\ clock' = [clock EXCEPT !.now = @ + 1]
    /\ UNCHANGED <<pc, submitted, idx, job_vars, listing, collected, all_games,
                   scraping_stats, saved, raw_games, passes, removed,
                   fetch_vars, aux_vars>>

TimedInit ==
    /\ pc = "submit"
    /\ listing \in SiteContents
    /\ all_games = <<>>
    /\ raw_games = <<>>
    /\ passes = 0
    /\ removed = 0
    /\ submitted = 0
    /\ idx = 0
    /\ jstate = [j \in Jobs |-> "new"]
    /\ games = [j \in Jobs |-> <<>>]
    /\ collected = [j \in Jobs |-> "none"]
    /\ out_of_order = FALSE
    /\ scraping_stats = <<>>
    /\ saved = <<"none">>
    /\ proxies = load_proxies
    /\ call = NoCall
    /\ clock = [NoClock EXCEPT !.on = TRUE]
    /\ exit_status = NotExited
    /\ registry = [j \in Jobs |-> j]
    /\ made = NoGames

TimedNext ==
    \/ Submit
    \/ \E j \in Jobs : Start(j)
    \/ \E j \in Jobs : Emit(j)
    \/ \E j \in Jobs : Return(j)
    \/ CollectResult
    \/ CollectTimeout
    \/ ExecutorExit
    \/ Tick

TimedSpec == TimedInit /\ [][TimedNext]_vars

----------------------------------------------------------------------------
(* Specification of a run over any NumJobs neighbours of the registry,     *)
(* each finding one raw entry on its site; every job returns               *)

o_r == <<"o","/","r">>
games_a_b == <<"/","g","a","m","e","s","/","a","-","b">>
game_a == <<"/","g","a","m","e","/","a">>

RawTitles == {None, <<>>, Foo, o_r}
RawHrefs == {None, <<>>, x1, games_a_b, game_a}
RawEntries == {Entry(t, h, l) : t \in RawTitles, h \in RawHrefs, l \in BOOLEAN}

\* NumJobs scrapers that follow one another in MainGameScraper.scrapers
Neighbours == {[j \in Jobs |-> k + j] : k \in 0..(Len(ScraperNames) - NumJobs)}

ExtractInit ==
    /\ pc = "submit"
    /\ registry \in Neighbours
    /\ made = NoGames
    /\ \E e \in RawEntries : listing = [j \in Jobs |-> <<e>>]
    /\ all_games = <<>>
    /\ raw_games = <<>>
    /\ passes = 0
    /\ removed = 0
    /\ submitted = 0
    /\ idx = 0
    /\ jstate = [j \in Jobs |-> "new"]
    /\ games = [j \in Jobs |-> <<>>]
    /\ collected = [j \in Jobs |-> "none"]
    /\ out_of_order = FALSE
    /\ scraping_stats = <<>>
    /\ saved = <<"none">>
    /\ proxies = load_proxies
    /\ call = NoCall
    /\ clock = NoClock
    /\ exit_status = NotExited

ExtractNext ==
    \/ Submit
    \/ \E j \in Jobs : Start(j)
    \/ \E j \in Jobs : Emit(j)
    \/ \E j \in Jobs : Return(j)
    \/ CollectResult
    \/ ExecutorExit
    \/ deduplicate_games

ExtractSpec == ExtractInit /\ [][ExtractNext]_vars

----------------------------------------------------------------------------
(* Properties of the deduplicator (checked under DedupeSpec) *)

\* the key the design names: (lower-cased name, URL) as a pair
PairKey(game) == <<Lower(game.name), game.url>>

\* the items of gs that are the first of their PairKey, in the order of gs
RECURSIVE FirstOccurrences(_, _)
FirstOccurrences(gs, i) ==
    IF i > Len(gs) THEN <<>>
    ELSE IF \E k \in 1..(i - 1) : PairKey(gs[k]) = PairKey(gs[i])
         THEN FirstOccurrences(gs, i + 1)
         ELSE <<gs[i]>> \o FirstOccurrences(gs, i + 1)

\* C1: deduplication is idempotent: once deduplicate_games has run, running
\* it again leaves the collection as it is (same items, same order) and
\* reports nothing removed.
C1_Idempotent ==
    [][passes >= 1 => (all_games' = all_games /\ removed' = 0)]_vars

\* C1 witness: a second pass has run on a collection from which the first
\* pass had removed duplicates.
C1_Witness ==
    /\ passes = 2
    /\ Len(raw_games) > Len(all_games)
    /\ Len(all_games) >= 2

\* C2 (as claimed): two items are collapsed if and only if their lower-cased
\* names are equal and their URLs are equal: no two retained items agree on
\* both, and every (lower-cased name, URL) pair of the input is still
\* represented after deduplication.
C2_DuplicateIffPairEqual ==
    passes >= 1 =>
        /\ \A i, j \in 1..Len(all_games) :
              i # j => PairKey(all_games[i]) # PairKey(all_games[j])
        /\ \A i \in 1..Len(raw_games) :
              \E k \in 1..Len(all_games) :
                  PairKey(all_games[k]) = PairKey(raw_games[i])

\* C3 (as claimed): of the items that share a (lower-cased name, URL) pair
\* exactly the first one of the merged collection is retained, and the
\* retained items keep their relative order.
C3_FirstOccurrenceWins ==
    passes >= 1 => all_games = FirstOccurrences(raw_games, 1)

\* s can be obtained from t by removing items
RECURSIVE IsSubsequence(_, _)
IsSubsequence(s, t) ==
    IF s = <<>> THEN TRUE
    ELSE IF t = <<>> THEN FALSE
    ELSE IF Head(s) = Head(t) THEN IsSubsequence(Tail(s), Tail(t))
    ELSE IsSubsequence(s, Tail(t))

\* C29 (as claimed): deduplicate_games only removes items: its output is a
\* subsequence of its input, is not longer than it, and holds exactly one
\* item for every (lower-cased name, URL) pair of the input.
C29_OnlyRemoves ==
    passes >= 1 =>
        /\ IsSubsequence(all_games, raw_games)
        /\ Len(all_games) <= Len(raw_games)
        /\ \A i \in 1..Len(raw_games) :
              Cardinality({k \in 1..Len(all_games) :
                  PairKey(all_games[k]) = PairKey(raw_games[i])}) = 1

----------------------------------------------------------------------------
(* Properties of the orchestrator (checked under Spec) *)

\* the lists the collector obtained from jobs 1..k, in registration order
RECURSIVE RegistrationConcat(_)
RegistrationConcat(k) ==
    IF k = 0 THEN <<>>
    ELSE RegistrationConcat(k - 1) \o
         (IF collected[k] = "result" THEN games[k] ELSE <<>>)

\* s holds every item of t
HoldsAll(s, t) == \A k \in 1..Len(t) : \E p \in 1..Len(s) : s[p] = t[k]

\* C4: whatever the interleaving and the completion order of the jobs, the
\* merged collection is the concatenation, in registration order, of the
\* lists obtained from the jobs (each in the job's discovery order), and
\* after deduplication it is the first occurrences of that concatenation:
\* Poki = [Foo@x/1] and Coolmath Games = [foo@x/1, Bar@x/2] give exactly
\* [Foo@x/1 from Poki, Bar@x/2 from Coolmath Games].
C4_MergeOrder ==
    /\ passes = 0 => all_games = RegistrationConcat(NumJobs)
    /\ passes >= 1 =>
          all_games = FirstOccurrences(RegistrationConcat(NumJobs), 1)
    /\ ( /\ pc = "done"
         /\ collected[1] = "result" /\ collected[2] = "result"
         /\ games[1] = <<Game(Foo, x1, "Poki")>>
         /\ games[2] = <<Game(foo, x1, "Coolmath Games"),
                         Game(Bar, x2, "Coolmath Games")>> )
       => all_games = <<Game(Foo, x1, "Poki"),
                        Game(Bar, x2, "Coolmath Games")>>

\* C4 witness: the run is over, a later job completed before an earlier one,
\* and the two jobs of the example were merged and deduplicated.
C4_Witness ==
    /\ pc = "done"
    /\ out_of_order
    /\ collected[1] = "result" /\ collected[2] = "result"
    /\ games[1] = <<Game(Foo, x1, "Poki")>>
    /\ Len(games[2]) = 2
    /\ all_games = <<Game(Foo, x1, "Poki"), Game(Bar, x2, "Coolmath Games")>>

\* C5 (as claimed): when run_scrapers_parallel has returned, the items a job
\* had produced before its scrape() raised are in the merged collection.
C5_PartialResultsOfFailedJob ==
    pc = "dedupe" =>
        \A j \in Jobs :
            collected[j] = "exception" => HoldsAll(all_games, games[j])

C7_PartialResultsOnTimeout ==
    [][\A j \in Jobs :
          (collected[j] = "none" /\ collected'[j] = "timeout") =>
              /\ HoldsAll(all_games', games[j])
              /\ scraping_stats'[ScraperNames[registry[j]]] = Len(games[j])]_vars

\* C8 (as claimed): once every future has been visited, run_scrapers_parallel
\* can return although a job whose wait timed out is still running.
C8_ReturnsWithoutWaiting ==
    (pc = "exit" /\ \E j \in Jobs :
                      collected[j] = "timeout" /\ jstate[j] = "running")
        => ENABLED ExecutorExit

----------------------------------------------------------------------------
(* Properties of the fetch engine (checked under FetchSpec) *)

FetchStrategies == {"requests", "selenium", "cloudscraper", "aiohttp"}

\* C9 (as claimed): for every strategy, content that arrived with transport
\* success and holds a block indicator is never what the call returns.
C9_BlockedNeverReturned ==
    ( /\ call.op \in FetchStrategies
      /\ call.env.kind = "response" /\ call.env.status = 200
      /\ is_blocked(call.env.text) )
    => call.ret = None

\* C10: with an empty pool get_random_proxy does not raise and returns the
\* empty mapping, and a fetch that selects a proxy goes on without one:
\* scrape_with_requests issues its request with no proxies, and
\* scrape_with_selenium starts the browser with no proxy argument and
\* navigates whenever the browser starts.
C10_EmptyPoolIsDirect ==
    proxies = <<>> =>
        /\ call.op = "get_random_proxy" =>
              ~call.raised /\ call.ret = NoProxy
        /\ call.op = "requests" =>
              call.proxy = NoProxy /\ call.sent = 1
        /\ call.op = "selenium" =>
              /\ call.proxy = NoProxy
              /\ call.env.kind # "none"
              /\ call.env.kind # "no_browser" => call.sent = 1

\* C10 witness: a fetch through scrape_with_requests with an empty pool got
\* its page without a proxy.
C10_Witness ==
    /\ proxies = <<>>
    /\ call.op = "requests"
    /\ call.proxy = NoProxy
    /\ call.sent = 1
    /\ call.ret = <<"g","a","m","e">>

\* C11 (as claimed): no call of a fetch strategy ends by raising; whatever
\* step fails inside it, the call returns a value.
C11_NoFetchRaises == call.op \in FetchStrategies => ~call.raised

\* what the claimed tag of a fetch outcome would be for what the transport did
FetchCategory(env) ==
    CASE env.kind = "error" -> "TransportError"
      [] env.kind = "timeout" -> "Timeout"
      [] env.kind = "response" /\ (env.status = 403 \/ is_blocked(env.text))
           -> "Blocked"
      [] OTHER -> "Success"

\* C19 (as claimed): the value a strategy returns tells Success, Blocked,
\* TransportError and Timeout apart: two calls of the same strategy whose
\* requests ended in different ones of these return different values.
C19_TaggedOutcome ==
    [][( /\ call.op \in FetchStrategies
         /\ call'.op = call.op
         /\ call.env \in Transport /\ call'.env \in Transport
         /\ call.sent = 1 /\ call'.sent = 1
         /\ ~call.raised /\ ~call'.raised
         /\ FetchCategory(call.env) # FetchCategory(call'.env) )
       => call.ret # call'.ret]_vars

\* C22 (as claimed): whenever a strategy has sent a request, the
\* randomized delay was applied before it.
C22_DelayBeforeRequest ==
    (call.op \in FetchStrategies /\ call.sent >= 1) => call.delayed

\* C23: one call of a strategy issues at most one retrieval attempt,
\* whether the attempt succeeds, is blocked or fails.
C23_NoRetries == call.op \in FetchStrategies => call.sent <= 1

\* C23 witness: a call whose only attempt failed in the transport returned
\* without a second attempt.
C23_Witness ==
    /\ call.op = "cloudscraper"
    /\ call.env.kind \in {"error", "timeout"}
    /\ call.sent = 1
    /\ call.ret = None

----------------------------------------------------------------------------
(* Properties of the entry point (checked under Spec and InterruptSpec) *)

\* C12 (as claimed): with zero items after deduplication main runs
\* save_results and print_stats to completion: no exception ends the report.
C12_ReportWithoutItems == Len(all_games) = 0 => pc # "fatal"

\* C13 (as claimed): the process exits with code 0 after a normal completion
\* and with a non-zero code after a run that an exception ended.
C13_ExitCode ==
    pc = "exited" =>
        /\ exit_status.left_by = "done" => exit_status.code = 0
        /\ exit_status.left_by \in {"fatal", "aborted"} => exit_status.code # 0

\* C14 (as claimed): when the handler of a user interrupt is over, every item
\* that any job had produced when the interrupt arrived is persisted (up to
\* the duplicates deduplicate_games drops).
C14_InterruptPersistsAll ==
    pc = "handled_interrupt" =>
        \A j \in Jobs : \A k \in 1..Len(exit_status.produced[j]) :
            /\ all_games # <<>>
            /\ \E p \in 1..Len(saved) :
                  game_id(saved[p]) = game_id(exit_status.produced[j][k])

\* C26: print_stats leaves all_games and scraping_stats as they are, whether
\* it ends normally or, on the empty collection, with the division by zero.
C26_StatsReadOnly ==
    [][(pc = "stats" /\ pc' \in {"done", "fatal"}) =>
          /\ all_games' = all_games
          /\ scraping_stats' = scraping_stats]_vars

\* C26 witness: print_stats has run over a collection of several items from
\* a statistics map with a non-zero count.
C26_Witness ==
    /\ pc = "done"
    /\ Len(all_games) >= 2
    /\ \E n \in DOMAIN scraping_stats : scraping_stats[n] > 0

----------------------------------------------------------------------------
(* Properties of the worker pool and of the per-job timeout *)

\* C15: all registered jobs are submitted before the collector loop starts,
\* and at no time do more jobs execute scrape() than the pool has workers.
C15_BoundedConcurrency ==
    /\ Cardinality(Running) <= PoolSize
    /\ pc = "collect" => submitted = NumJobs

\* C15 witness: every job is submitted, the pool is full and a job waits in
\* the queue.
C15_Witness ==
    /\ submitted = NumJobs
    /\ Cardinality(Running) = PoolSize
    /\ \E j \in Jobs : jstate[j] = "queued"

\* C16 (as claimed, checked under TimedSpec): a job whose scrape() ran for
\* more than the per-job timeout is never merged as completed.
C16_TimeoutFromJobStart ==
    \A j \in Jobs :
        collected[j] = "result" =>
            clock.end[j] - clock.start[j] <= PerJobTimeout

\* C17 (as claimed): a job whose wait timed out holds no worker: whenever a
\* job is queued and fewer than PoolSize jobs that have not timed out are
\* running, the queued job can start.
C17_TimedOutJobFreesWorker ==
    ( /\ \E q \in Jobs : jstate[q] = "queued"
      /\ Cardinality({j \in Running : collected[j] # "timeout"}) < PoolSize )
    => ENABLED (\E q \in Jobs : Start(q))

\* C24: a step that writes a job's accumulator is a step of that job while
\* it runs, and writes no other job's accumulator, nor the merged collection,
\* nor the statistics; a step that writes the merged collection or the
\* statistics is a step of the main thread, writes no accumulator, and
\* inside the collector loop extends the merged collection only by the list
\* of the job whose future it visits, after that job has returned.
C24_NoSharedWrites ==
    [][ /\ \A j \in Jobs :
             games'[j] # games[j] =>
                /\ jstate[j] = "running"
                /\ \A i \in Jobs \ {j} : games'[i] = games[i]
                /\ all_games' = all_games
                /\ scraping_stats' = scraping_stats
                /\ pc' = pc /\ idx' = idx
        /\ (all_games' # all_games \/ scraping_stats' # scraping_stats) =>
                /\ games' = games /\ jstate' = jstate
                /\ pc \in {"collect", "dedupe"}
                /\ (pc = "collect" /\ all_games' # all_games) =>
                      LET j == FutureOrder[idx + 1] IN
                        /\ jstate[j] = "returned"
                        /\ all_games' = all_games \o games[j] ]_vars

\* C24 witness: two jobs are running, each has written its own accumulator,
\* and the main thread has merged the list of a third.
C24_Witness ==
    \E i, j, k \in Jobs :
        /\ i # j /\ i # k /\ j # k
        /\ collected[i] = "result" /\ all_games = games[i] /\ games[i] # <<>>
        /\ jstate[j] = "running" /\ games[j] # <<>>
        /\ jstate[k] = "running" /\ games[k] # <<>>

----------------------------------------------------------------------------
(* Properties of the statistics when run_scrapers_parallel has returned *)

RECURSIVE SumCounts(_, _)
\* sum(scraping_stats.values()) over the keys in names
SumCounts(stats, names) ==
    IF names = {} THEN 0
    ELSE LET n == CHOOSE m \in names : TRUE
         IN  stats[n] + SumCounts(stats, names \ {n})

\* the positions of all_games that hold an item of job j
ContributedBy(j) ==
    {k \in 1..Len(all_games) : all_games[k].source = ScraperNames[registry[j]]}

\* C27: when run_scrapers_parallel has returned, before the first
\* deduplicate_games, the counts of scraping_stats add up to len(all_games),
\* each job's count is the number of its items in all_games, and it is 0 for
\* a job that raised or timed out.
C27_CountsMatchMerge ==
    (pc = "dedupe" /\ passes = 0) =>
        /\ SumCounts(scraping_stats, DOMAIN scraping_stats) = Len(all_games)
        /\ \A j \in Jobs :
              /\ scraping_stats[ScraperNames[registry[j]]] =
                    Cardinality(ContributedBy(j))
              /\ collected[j] \in {"exception", "timeout"} =>
                    scraping_stats[ScraperNames[registry[j]]] = 0

\* C27 witness: the run returned with the items of one job merged while a
\* job that raised and a job that timed out, both holding items, count 0.
C27_Witness ==
    /\ pc = "dedupe" /\ passes = 0
    /\ \E i, j, k \in Jobs :
          /\ collected[i] = "result" /\ games[i] # <<>>
          /\ collected[j] = "exception" /\ games[j] # <<>>
          /\ collected[k] = "timeout" /\ games[k] # <<>>
          /\ Len(all_games) = Len(games[i])

\* C28: when run_scrapers_parallel has returned, the keys of scraping_stats
\* are the names of the registered jobs, one key per job: no job is missing
\* and no two jobs have the same name.
C28_OneEntryPerJob ==
    /\ \A s, t \in 1..Len(ScraperNames) :
          ScraperNames[s] = ScraperNames[t] => s = t
    /\ pc = "dedupe" =>
          /\ DOMAIN scraping_stats = {ScraperNames[registry[j]] : j \in Jobs}
          /\ Cardinality(DOMAIN scraping_stats) = NumJobs

\* C28 witness: the run returned after one job completed, one raised and one
\* timed out.
C28_Witness ==
    /\ pc = "dedupe"
    /\ \E i, j, k \in Jobs :
          /\ collected[i] = "result"
          /\ collected[j] = "exception"
          /\ collected[k] = "timeout"
    /\ Cardinality(DOMAIN scraping_stats) = NumJobs

----------------------------------------------------------------------------
(* Progress of the bounded pool (checked under LiveSpec) *)

\* scrape() of job j has been entered
Started(j) == jstate[j] \in {"running"} \cup Done

----------------------------------------------------------------------------
(* Properties of the items (checked under ExtractSpec) *)

\* C18 (as claimed): no job appends, and the merged collection never holds,
\* an item whose name and URL are both empty.
C18_NameOrUrl ==
    /\ \A j \in Jobs : \A k \in 1..Len(games[j]) :
          games[j][k].name # <<>> \/ games[j][k].url # <<>>
    /\ \A k \in 1..Len(all_games) :
          all_games[k].name # <<>> \/ all_games[k].url # <<>>

\* C20 (as claimed): the source of every item is the name of the job that
\* produced it, and every item of the merged collection has its source among
\* the keys of scraping_stats.
C20_SourceIsStatsKey ==
    /\ \A j \in Jobs : \A k \in 1..Len(games[j]) :
          games[j][k].source = ScraperNames[registry[j]]
    /\ \A k \in 1..Len(all_games) :
          all_games[k].source \in DOMAIN scraping_stats

\* C25 (as claimed): a job whose listing fetch gave nothing returns an empty
\* list without raising and is recorded with count 0; an entry whose
\* follow-up request fails still yields the item the entry would yield if
\* the request had succeeded, and the job goes on.
C25_SoftFailure ==
    /\ [](\A j \in Jobs :
            (jstate[j] \in Done /\ listing[j] # <<>>) =>
                /\ jstate[j] = "returned"
                /\ games[j] = <<>>
                /\ collected[j] \in {"none", "result"}
                /\ collected[j] = "result" =>
                      scraping_stats[ScraperNames[registry[j]]] = 0)
    /\ [][\A j \in Jobs :
            listing'[j] # listing[j] =>
                LET e == Head(listing[j])
                    fetched == build_item(registry[j], [e EXCEPT !.live = TRUE])
                IN  /\ Len(games'[j]) = Len(games[j]) + Len(fetched)
                    /\ jstate'[j] = "running"]_vars

----------------------------------------------------------------------------
(* Properties of the Game dataclass (checked under GameSpec) *)

\* C21: every constructed item has a tags list and a non-empty
\* date_scraped; tags and date_scraped given to the constructor are kept as
\* they are; a missing date_scraped becomes the timestamp of the
\* construction and missing tags a new empty list that no other item built
\* without tags refers to.
C21_Defaults ==
    \A i \in 1..Len(made.objects) :
        LET o == made.objects[i] IN
        /\ o.obj.tags # 0
        /\ o.obj.date_scraped # <<>>
        /\ o.given_tags # 0 => o.obj.tags = o.given_tags
        /\ o.given_date # <<>> => o.obj.date_scraped = o.given_date
        /\ o.given_date = <<>> => o.obj.date_scraped = isoformat(o.created)
        /\ o.given_tags = 0 =>
              /\ made.lists[o.obj.tags] = <<>>
              /\ \A k \in 1..Len(made.objects) :
                    (k # i /\ made.objects[k].given_tags = 0)
                        => made.objects[k].obj.tags # o.obj.tags

\* C21 witness: two items built without tags at different times have
\* different lists and their own timestamps, and a third was built with a
\* caller's list and date.
C21_Witness ==
    \E i, k, m \in 1..Len(made.objects) :
        /\ i # k
        /\ made.objects[i].given_tags = 0 /\ made.objects[k].given_tags = 0
        /\ made.objects[i].obj.tags # made.objects[k].obj.tags
        /\ made.objects[i].given_date = <<>> /\ made.objects[k].given_date = <<>>
        /\ made.objects[i].obj.date_scraped # made.objects[k].obj.date_scraped
        /\ made.objects[m].given_tags # 0
        /\ made.objects[m].obj.tags = made.objects[m].given_tags
        /\ made.objects[m].obj.date_scraped = Stamp

====
